---- MODULE Spec2Model ----
(***************************************************************************)
(* Model of ipv6planner.go: calculateAvailableSubnets and                  *)
(* generateIPv6Plan.                                                       *)
(*                                                                         *)
(* Representation.                                                         *)
(*  - A 128-bit address (net.IP of 16 bytes) is the set of the positions   *)
(*    of its 1 bits, position 0 being the most significant bit of byte 0   *)
(*    and position 127 the least significant bit of byte 15.               *)
(*  - A Go int / int64 is its 64-bit two's complement pattern: the set of  *)
(*    the positions of its 1 bits, position 0 being the least significant  *)
(*    bit and position 63 the sign bit.  Go's shift and signed comparison  *)
(*    are computed on that pattern, so wrap-around is what the build does. *)
(*  - Loop counters that stay small (i, bit, j, bitsNeeded) are integers.  *)
(***************************************************************************)
EXTENDS Integers, Sequences, FiniteSets, TLC

\* Width of an IPv6 address: net.CIDRMask(_, 128), 16-byte net.IP.
AddrBits == 128

\* Width of Go's int64 (and of int on the 64-bit builds the tool targets).
IntBits == 64

\* Small POP counts tried are 0..MaxPop; the model follows at most MaxPop
\* iterations of the POP loop.
MaxPop == 5

\* Longest list of subnet levels tried.
MaxLevels == 2

\* The model stops following the bit-width loop at this value of bitsNeeded.
MaxShift == 66

VARIABLES
    subnet,         \* parameter: the CIDR text, as [valid, addr, len]
    popCount,       \* parameter: int, as a 64-bit pattern
    preferredSize,  \* parameter: int
    subnetLevels,   \* parameter: []int
    pc,             \* position in generateIPv6Plan
    ipNet,          \* *net.IPNet returned by net.ParseCIDR: [IP, ones]
    plan,           \* the IPv6Plan under construction
    levelIdx,       \* 1-based position of the subnet-count loop (line 208)
    bitsNeeded,     \* local bitsNeeded
    i,              \* POP loop index
    stdout,         \* lines printed by fmt.Printf inside generateIPv6Plan
    call            \* one call of calculateAvailableSubnets (SpecCalc only)

vars == <<subnet, popCount, preferredSize, subnetLevels, pc, ipNet, plan,
          levelIdx, bitsNeeded, i, stdout, call>>

----------------------------------------------------------------------------
(* 64-bit two's complement arithmetic                                      *)

IntPositions == 0..(IntBits - 1)

SignBit == IntBits - 1

\* The pattern of a small non-negative integer n (0 <= n < 2^31).
ToInt64(n) == {k \in 0..30 : (n \div (2^k)) % 2 = 1}

\* Unsigned order on patterns: at the highest position where they differ,
\* b has the 1.
ULess(a, b) ==
    \E k \in b \ a : \A m \in (k+1)..SignBit : (m \in a) <=> (m \in b)

\* Go's `<` on signed 64-bit integers.
SLess(a, b) ==
    IF (SignBit \in a) # (SignBit \in b) THEN SignBit \in a ELSE ULess(a, b)

\* Go's x << s on a 64-bit integer, s >= 0: bits shifted past the sign bit
\* are lost, and a count of 64 or more gives 0.
Shl(x, s) == IF s >= IntBits THEN {} ELSE {k + s : k \in x} \cap IntPositions

\* (i >> bit) & 1 for a small non-negative loop index i.
ShrAnd1(n, bit) == IF bit \in 0..30 THEN (n \div (2^bit)) % 2 ELSE 0

----------------------------------------------------------------------------
(* calculateAvailableSubnets (lines 184-189)                               *)

calculateAvailableSubnets(parentSize, childSize) ==
    IF childSize <= parentSize
    THEN {}
    ELSE Shl(ToInt64(1), childSize - parentSize)

----------------------------------------------------------------------------
(* Addresses, masks and prefixes                                           *)

AddrPositions == 0..(AddrBits - 1)

\* len(ipNet.IP) for an IPv6 prefix: the 16 bytes of a net.IP.
IPLen == AddrBits \div 8

\* The positions of the leading n bits.
Leading(n) == {p \in AddrPositions : p < n}

\* net.ParseCIDR on well-formed IPv6 CIDR text: the network it returns has
\* the address masked to the prefix length, and Mask.Size() gives the length.
ParseCIDR(s) == [IP |-> s.addr \cap Leading(s.len), ones |-> s.len]

\* net.CIDRMask(ones, 128): nil when ones is outside 0..128.
CIDRMask(ones) ==
    IF ones \in 0..AddrBits THEN [nil |-> FALSE, ones |-> ones]
                            ELSE [nil |-> TRUE, ones |-> 0]

\* &net.IPNet{IP: ip, Mask: mask}, as (*IPNet).String() shows it: the IP as
\* stored (String applies no mask) and the length of the mask.
IPNet(ip, mask) == [IP |-> ip, Mask |-> mask]

----------------------------------------------------------------------------
(* The loops of generateIPv6Plan                                           *)

\* Line 209: a level that is not deeper than the base is left out of the
\* global counts.
CountSkipsLevel_Lt(level, ones) == level < ones

CountSkipsLevel(level, ones) == level <= ones

\* Line 222: (1 << bitsNeeded) < popCount, in Go's int.
BitsLoopCond(b, n) == SLess(Shl(ToInt64(1), b), n)

\* Line 233: i < popCount.
PopLoopCond_Le(idx, n) == ~SLess(n, ToInt64(idx))

PopLoopCond(idx, n) == SLess(ToInt64(idx), n)

\* Lines 239-240.
byteIndex(ones, bit) == (ones + bit) \div 8

bitIndex_NoFlip(ones, bit) == (ones + bit) % 8

bitIndex(ones, bit) == 7 - ((ones + bit) % 8)

\* popIP[b] |= 1 << k sets the bit of byte b whose weight is 2^k, which is
\* position 8*b + (7 - k) of the address.
OrBit(ip, b, k) == ip \cup {8 * b + (7 - k)}

\* Lines 238-244: the POP bits of index idx from bit on.  Indexing popIP
\* at or past len(popIP) is a run-time panic.
RECURSIVE SetPOPBits(_, _, _, _, _)
SetPOPBits(popIP, ones, idx, bit, nbits) ==
    IF bit >= nbits THEN [panic |-> FALSE, IP |-> popIP]
    ELSE IF ShrAnd1(idx, bit) = 1
         THEN IF byteIndex(ones, bit) >= IPLen
              THEN [panic |-> TRUE, IP |-> popIP]
              ELSE SetPOPBits(OrBit(popIP, byteIndex(ones, bit), bitIndex(ones, bit)),
                              ones, idx, bit + 1, nbits)
         ELSE SetPOPBits(popIP, ones, idx, bit + 1, nbits)

\* fmt.Sprintf("Level %d (/%d)", j+1, level); "" is the empty tuple.
LevelName(j, level) == <<"Level", j, level>>

EmptyString == <<>>

\* Line 258.
LevelWarning(level, size) == [msg |-> "level not more specific", a |-> level, b |-> size]

\* Line 229.
PrefixWarning(newPrefixLen, size) == [msg |-> "required prefix length larger", a |-> newPrefixLen, b |-> size]

\* Lines 256-276: the level loop of one POP from (1-based) position j on;
\* acc holds subnets, levelNames and the lines printed.
RECURSIVE LevelLoop(_, _, _, _, _)
LevelLoop(j, levels, size, popIP, acc) ==
    IF j > Len(levels) THEN acc
    ELSE LET level == levels[j] IN
         IF level <= size
         THEN LevelLoop(j + 1, levels, size, popIP,
                        [acc EXCEPT !.out = Append(@, LevelWarning(level, size))])
         ELSE LET available == calculateAvailableSubnets(size, level)
                  sub == IPNet(popIP, CIDRMask(level))
              IN  LevelLoop(j + 1, levels, size, popIP,
                     [acc EXCEPT
                        !.subnets = Append(@, [CIDR |-> sub,
                                               Count |-> available,
                                               Available |-> available]),
                        !.levelNames[j] = LevelName(j, level)])

----------------------------------------------------------------------------
(* Inputs                                                                  *)

\* Address bits of one 16-bit group written in hex, at group g (0..7).
Group(g, positions) == {16 * g + p : p \in positions}

\* 3fff:: ; 3fff:db8:: ; ffff:ffff:ffff:ffff:ffff:ffff:ffff:ffff
Addr3fff == Group(0, 2..15)

Addr3fffdb8 == Addr3fff \cup Group(1, {4, 5, 7, 8, 10, 11, 12})

AddrAllOnes == AddrPositions

\* The -s argument: text net.ParseCIDR rejects, or a well-formed IPv6 CIDR
\* with its address bits and prefix length.
Subnets ==
    { [valid |-> FALSE, addr |-> {}, len |-> 0],
      [valid |-> TRUE, addr |-> {}, len |-> 0],
      [valid |-> TRUE, addr |-> Addr3fff, len |-> 20],
      [valid |-> TRUE, addr |-> Addr3fffdb8, len |-> 32],
      [valid |-> TRUE, addr |-> AddrAllOnes, len |-> 126],
      [valid |-> TRUE, addr |-> AddrAllOnes, len |-> 128] }

\* The -n argument: 0..MaxPop, -1, 2^62 and 2^62 + 1.
PopCounts ==
    {ToInt64(n) : n \in 0..MaxPop} \cup {IntPositions, {62}, {62, 0}}

\* The -p argument.
PreferredSizes == {34, 36, 40, 128}

\* The -l argument: lists of at most MaxLevels levels.
LevelValues == {32, 48, 64, 128}

LevelLists == UNION {[1..n -> LevelValues] : n \in 0..MaxLevels}

\* The zero value of IPv6Plan.
ZeroPlan ==
    [BaseSubnet |-> [valid |-> FALSE, addr |-> {}, len |-> 0], POPCount |-> {},
     PreferredSize |-> 0, SubnetLevels |-> <<>>,
     POPAllocations |-> <<>>, SubnetCounts |-> <<>>]

NoCall == [parentSize |-> 0, childSize |-> 0, ret |-> {}, returned |-> FALSE]

----------------------------------------------------------------------------
(* generateIPv6Plan as a state machine                                     *)

Init ==
    /\ subnet \in Subnets
    /\ popCount \in PopCounts
    /\ preferredSize \in PreferredSizes
    /\ subnetLevels \in LevelLists
    /\ pc = "parse"
    /\ ipNet = [IP |-> {}, ones |-> 0]
    /\ plan = ZeroPlan
    /\ levelIdx = 1
    /\ bitsNeeded = 0
    /\ i = 0
    /\ stdout = <<>>
    /\ call = NoCall

params == <<subnet, popCount, preferredSize, subnetLevels>>

\* Lines 192-196: the text does not parse; print the error and os.Exit(1).
ParseError ==
    /\ pc = "parse"
    /\ ~subnet.valid
    /\ stdout' = Append(stdout, [msg |-> "Error parsing subnet", a |-> 0, b |-> 0])
    /\ pc' = "exit1"
    /\ UNCHANGED <<params, ipNet, plan, levelIdx, bitsNeeded, i, call>>

\* Lines 192-205: the text parses; the plan starts with the parameters.
ParseOK ==
    /\ pc = "parse"
    /\ subnet.valid
    /\ ipNet' = ParseCIDR(subnet)
    /\ plan' = [ZeroPlan EXCEPT !.BaseSubnet = subnet, !.POPCount = popCount,
                                !.PreferredSize = preferredSize,
                                !.SubnetLevels = subnetLevels]
    /\ pc' = "counts"
    /\ UNCHANGED <<params, levelIdx, bitsNeeded, i, stdout, call>>

\* Lines 208-211: one iteration of the subnet-count loop, level skipped.
CountSkip ==
    /\ pc = "counts"
    /\ levelIdx <= Len(subnetLevels)
    /\ CountSkipsLevel(subnetLevels[levelIdx], ipNet.ones)
    /\ levelIdx' = levelIdx + 1
    /\ UNCHANGED <<params, pc, ipNet, plan, bitsNeeded, i, stdout, call>>

\* Lines 208-218: one iteration of the subnet-count loop, entry appended.
CountAppend ==
    /\ pc = "counts"
    /\ levelIdx <= Len(subnetLevels)
    /\ ~CountSkipsLevel(subnetLevels[levelIdx], ipNet.ones)
    /\ LET level == subnetLevels[levelIdx]
           count == calculateAvailableSubnets(ipNet.ones, level)
       IN  plan' = [plan EXCEPT !.SubnetCounts =
                        Append(@, [PrefixSize |-> level, Count |-> count,
                                   Available |-> count])]
    /\ levelIdx' = levelIdx + 1
    /\ UNCHANGED <<params, pc, ipNet, bitsNeeded, i, stdout, call>>

\* Line 221: the subnet-count loop is over; bitsNeeded := 0.
CountsDone ==
    /\ pc = "counts"
    /\ levelIdx > Len(subnetLevels)
    /\ bitsNeeded' = 0
    /\ pc' = "bits"
    /\ UNCHANGED <<params, ipNet, plan, levelIdx, i, stdout, call>>

\* Lines 222-224: one iteration of the bit-width loop.
BitsStep ==
    /\ pc = "bits"
    /\ BitsLoopCond(bitsNeeded, popCount)
    /\ bitsNeeded < MaxShift
    /\ bitsNeeded' = bitsNeeded + 1
    /\ UNCHANGED <<params, pc, ipNet, plan, levelIdx, i, stdout, call>>

\* Lines 222, 227-233: the bit-width loop exits; the warning is printed
\* when the POP bits do not fit in the preferred size; i := 0.
BitsExit ==
    /\ pc = "bits"
    /\ ~BitsLoopCond(bitsNeeded, popCount)
    /\ LET newPrefixLen == ipNet.ones + bitsNeeded
       IN  stdout' = IF newPrefixLen > preferredSize
                     THEN Append(stdout, PrefixWarning(newPrefixLen, preferredSize))
                     ELSE stdout
    /\ i' = 0
    /\ pc' = "pops"
    /\ UNCHANGED <<params, ipNet, plan, levelIdx, bitsNeeded, call>>

\* Lines 233-284: one iteration of the POP loop.
PopIter ==
    /\ pc = "pops"
    /\ PopLoopCond(i, popCount)
    /\ i < MaxPop
    /\ LET set == SetPOPBits(ipNet.IP, ipNet.ones, i, 0, bitsNeeded)
           popSubnet == IPNet(set.IP, CIDRMask(preferredSize))
           acc == LevelLoop(1, subnetLevels, preferredSize, set.IP,
                            [subnets |-> <<>>,
                             levelNames |-> [j \in 1..Len(subnetLevels) |-> EmptyString],
                             out |-> <<>>])
       IN  /\ ~set.panic
           /\ plan' = [plan EXCEPT !.POPAllocations =
                          Append(@, [POPNumber |-> i + 1,
                                     POPSubnet |-> popSubnet,
                                     Subnets |-> acc.subnets,
                                     LevelNames |-> acc.levelNames])]
           /\ stdout' = stdout \o acc.out
    /\ i' = i + 1
    /\ UNCHANGED <<params, pc, ipNet, levelIdx, bitsNeeded, call>>

\* Line 242: popIP is indexed past its end; the run-time panics.
PopPanic ==
    /\ pc = "pops"
    /\ PopLoopCond(i, popCount)
    /\ i < MaxPop
    /\ SetPOPBits(ipNet.IP, ipNet.ones, i, 0, bitsNeeded).panic
    /\ pc' = "panic"
    /\ UNCHANGED <<params, ipNet, plan, levelIdx, bitsNeeded, i, stdout, call>>

\* Lines 233, 286: the POP loop is over; return plan.
Return ==
    /\ pc = "pops"
    /\ ~PopLoopCond(i, popCount)
    /\ pc' = "done"
    /\ UNCHANGED <<params, ipNet, plan, levelIdx, bitsNeeded, i, stdout, call>>

Next ==
    \/ ParseError
    \/ ParseOK
    \/ CountSkip
    \/ CountAppend
    \/ CountsDone
    \/ BitsStep
    \/ BitsExit
    \/ PopIter
    \/ PopPanic
    \/ Return

Spec == Init /\ [][Next]_vars

----------------------------------------------------------------------------
(* calculateAvailableSubnets called on its own                             *)

PrefixLens == 0..AddrBits

InitCalc ==
    /\ call \in [parentSize : PrefixLens, childSize : PrefixLens,
                 ret : {{}}, returned : {FALSE}]
    /\ subnet = [valid |-> FALSE, addr |-> {}, len |-> 0]
    /\ popCount = {}
    /\ preferredSize = 0
    /\ subnetLevels = <<>>
    /\ pc = "calc"
    /\ ipNet = [IP |-> {}, ones |-> 0]
    /\ plan = ZeroPlan
    /\ levelIdx = 1
    /\ bitsNeeded = 0
    /\ i = 0
    /\ stdout = <<>>

gen == <<subnet, popCount, preferredSize, subnetLevels, pc, ipNet, plan,
         levelIdx, bitsNeeded, i, stdout>>

\* Lines 185-187: the child is not deeper than the parent.
CalcNotDeeper ==
    /\ pc = "calc"
    /\ ~call.returned
    /\ call.childSize <= call.parentSize
    /\ call' = [call EXCEPT
                  !.ret = calculateAvailableSubnets(call.parentSize, call.childSize),
                  !.returned = TRUE]
    /\ UNCHANGED gen

\* Line 188: the shift.
CalcShift ==
    /\ pc = "calc"
    /\ ~call.returned
    /\ call.childSize > call.parentSize
    /\ call' = [call EXCEPT
                  !.ret = calculateAvailableSubnets(call.parentSize, call.childSize),
                  !.returned = TRUE]
    /\ UNCHANGED gen

NextCalc ==
    \/ CalcNotDeeper
    \/ CalcShift

SpecCalc == InitCalc /\ [][NextCalc]_vars

----------------------------------------------------------------------------
(* Vocabulary of the properties                                            *)

Zero == {}

\* The int64 v holds the number 2^d: only bit d is set and it is not the
\* sign bit.  No int64 holds 2^d for d >= 63.
IsPowerOfTwo(v, d) == v = {d} /\ d < SignBit

\* popCount >= 1.
Positive(n) == SLess(Zero, n)

\* The loops before the POP loop are over.
InPopLoopOrAfter == pc \in {"pops", "done", "panic"}

POPs == {plan.POPAllocations[k] : k \in 1..Len(plan.POPAllocations)}

\* All bits of the prefix at positions >= its length are zero.
Canonical(n) == ~n.Mask.nil /\ n.IP \cap {p \in AddrPositions : p >= n.Mask.ones} = {}

\* The configured levels deeper than size, in configured order.
Deeper(size) == SelectSeq(subnetLevels, LAMBDA L : L > size)

\* The least b >= 0 with 2^b >= n, for a pattern n >= 1.
CeilLog2(n) ==
    LET top == CHOOSE t \in n : \A k \in n : k <= t
    IN  IF n = {top} THEN top ELSE top + 1

----------------------------------------------------------------------------
(* Properties                                                              *)

\* C1: calculateAvailableSubnets returns 2^(childLen - parentLen) whenever
\* 0 <= parentLen < childLen <= 128, and 0 whenever childLen <= parentLen.
C1_AvailableIsPowerOfTwo ==
    call.returned =>
        IF call.childSize <= call.parentSize
        THEN call.ret = Zero
        ELSE IsPowerOfTwo(call.ret, call.childSize - call.parentSize)

\* C2: every prefix emitted in a plan is canonical: the POP subnet has no
\* bit set at a position >= preferredLen, and every representative subnet
\* of length L has no bit set at a position >= L.
C2_EmittedPrefixesCanonical ==
    \A a \in POPs :
        /\ Canonical(a.POPSubnet)
        /\ \A k \in 1..Len(a.Subnets) : Canonical(a.Subnets[k].CIDR)

\* C3: the bitsNeeded address bits from position base.length on, read with
\* position base.length as the most significant bit, are the POP's 0-based
\* index (POPNumber - 1).
C3_POPBitsBigEndianIndex ==
    \A a \in POPs :
        \A k \in 0..(bitsNeeded - 1) :
            (ipNet.ones + k \in a.POPSubnet.IP)
                <=> (ShrAnd1(a.POPNumber - 1, bitsNeeded - 1 - k) = 1)

\* C4: when base.length + bitsNeeded <= 128, the POPs of distinct indices
\* have distinct addresses, and each POP address differs from the canonical
\* base address only at positions base.length .. base.length+bitsNeeded-1:
\* its first base.length bits are the base's and every bit from position
\* base.length+bitsNeeded on is zero.
C4_POPDerivationInjective ==
    ipNet.ones + bitsNeeded <= AddrBits =>
        /\ \A a, b \in POPs :
              a.POPNumber # b.POPNumber => a.POPSubnet.IP # b.POPSubnet.IP
        /\ \A a \in POPs :
              /\ a.POPSubnet.IP \cap Leading(ipNet.ones) = ipNet.IP
              /\ \A p \in a.POPSubnet.IP :
                    p < ipNet.ones + bitsNeeded
              /\ \A p \in AddrPositions :
                    (p \in a.POPSubnet.IP) # (p \in ipNet.IP)
                        => p \in ipNet.ones..(ipNet.ones + bitsNeeded - 1)

\* C4 witness: four POPs derived under a non-zero base with room for the
\* index bits, two of them with different index bits set.
C4_Witness ==
    /\ ipNet.ones + bitsNeeded <= AddrBits
    /\ ipNet.IP # {}
    /\ Len(plan.POPAllocations) >= 4
    /\ plan.POPAllocations[2].POPSubnet.IP # ipNet.IP
    /\ plan.POPAllocations[3].POPSubnet.IP # plan.POPAllocations[2].POPSubnet.IP

\* C5: for a well-formed base prefix and popCount >= 1 generation never
\* aborts, and the plan returned holds exactly popCount POP allocations
\* with ordinals 1..popCount in order.
C5_NeverAbortsOnValidBase ==
    (subnet.valid /\ Positive(popCount)) =>
        /\ pc # "panic"
        /\ pc = "done" =>
              /\ ToInt64(Len(plan.POPAllocations)) = popCount
              /\ \A k \in 1..Len(plan.POPAllocations) :
                    plan.POPAllocations[k].POPNumber = k

\* C6: in every POP allocation LevelNames[k] is the label of Subnets[k]:
\* "Level j+1 (/L)" with L the length of Subnets[k] and j the 0-based
\* position of L in the configured levels.
C6_LevelNamesAligned ==
    \A a \in POPs :
        \A k \in 1..Len(a.Subnets) :
            \E j \in 1..Len(subnetLevels) :
                /\ subnetLevels[j] = a.Subnets[k].CIDR.Mask.ones
                /\ a.LevelNames[k] = LevelName(j, subnetLevels[j])

C8_RepresentativeSubnets ==
    \A a \in POPs :
        LET deeper == Deeper(preferredSize)
        IN  /\ Len(a.Subnets) = Len(deeper)
            /\ \A k \in 1..Len(a.Subnets) :
                  /\ a.Subnets[k].CIDR.IP = a.POPSubnet.IP
                  /\ ~a.Subnets[k].CIDR.Mask.nil
                  /\ a.Subnets[k].CIDR.Mask.ones = deeper[k]
                  /\ IsPowerOfTwo(a.Subnets[k].Count, deeper[k] - preferredSize)
                  /\ a.Subnets[k].Available = a.Subnets[k].Count

\* C9: for every popCount >= 1 the bit-width loop stops at the least b
\* with 2^b >= popCount: bitsNeeded never passes that b and has that value
\* once the loop is over; the plan returned holds popCount POP iterations.
C9_BitWidthLoopStopsAtCeilLog2 ==
    Positive(popCount) =>
        /\ bitsNeeded <= CeilLog2(popCount)
        /\ InPopLoopOrAfter => bitsNeeded = CeilLog2(popCount)
        /\ pc = "done" => ToInt64(Len(plan.POPAllocations)) = popCount

\* C10 as stated: with popCount = 0 the bit-width loop is never left and no
\* plan is returned.
C10_ZeroPopCountNeverReturns ==
    popCount = Zero => pc \notin {"pops", "done"}

\* C10 as amended: with popCount = 0 the condition of the bit-width loop is
\* false the first time it is evaluated, so bitsNeeded stays 0; the POP loop
\* runs no iteration, and the plan returned has no POP allocation.
C10_ZeroPopCountReturnsEmptyPlan ==
    (subnet.valid /\ popCount = Zero) =>
        /\ bitsNeeded = 0
        /\ pc = "bits" => ~BitsLoopCond(bitsNeeded, popCount)
        /\ pc = "pops" => ENABLED Return
        /\ pc # "panic"
        /\ plan.POPAllocations = <<>>

\* C10 witness: generateIPv6Plan called with popCount = 0 has returned.
C10_Witness ==
    /\ popCount = Zero
    /\ pc = "done"
    /\ plan.POPCount = Zero

====
